---- MODULE Spec2Model ----
(***************************************************************************)
(* Model of GCEWindowsAgent/metadata.go: the metadata fetcher              *)
(* (getMetadata / watchMetadata), the change gate (updateEtag) and the     *)
(* windows-keys decoder (windowsKeys.UnmarshalJSON) with its malformed-    *)
(* entry memo (badKeys).                                                   *)
(*                                                                         *)
(* One call of getMetadata is split at its two suspension points: the      *)
(* HTTP round trip (client.Do) and the body read (ioutil.ReadAll).  The    *)
(* context handed to the call can be cancelled by the environment while    *)
(* the call is suspended at either point.                                  *)
(***************************************************************************)
EXTENDS Integers, Sequences, FiniteSets, TLC

\* ------------------------------------------------------------------------
\* Bounds of the model
\* ------------------------------------------------------------------------
\* Largest number of key lines carried by one response body (instance and
\* project windows-keys strings together): MaxBodyLines when every outcome of
\* the transport and every cancellation is explored (Spec), MaxLines in a
\* watch loop that nothing disturbs (SpecDecode).
MaxBodyLines == 1
MaxLines == 2
\* Clock readings run over 1..MaxTime.
MaxTime == 2
\* Calls each of the two concurrent fetchers makes (SpecConcurrent).
MaxFetches == 2

\* ------------------------------------------------------------------------
\* Program constants and value domains
\* ------------------------------------------------------------------------
defaultEtag == "NONE"

\* Values of the "etag" response header as resp.Header.Get returns them; ""
\* is what Get returns when the header is absent.  Tokens are opaque and
\* URL-safe, so http.NewRequest on metadataURL + ... + etag always succeeds.
HeaderValues == {"", "e1", "e2"}

Times == 1..MaxTime

\* Wire form of an expiry that time.Parse accepts, and the instant it denotes.
TimeOf == [t1 |-> 1, t2 |-> 2]

\* One line of the windows-keys string.  syntax = "object" is a line that
\* json.Unmarshal decodes into a windowsKey; "empty" is the empty string
\* (strings.Split yields it for an empty key list or a trailing line feed)
\* and "garbage" a non-JSON line: json.Unmarshal fails on both.
BadLine(s) ==
    [syntax |-> s, exponent |-> "", modulus |-> "", userName |-> "", expireOn |-> ""]
KeyLine(e, m, u, x) ==
    [syntax |-> "object", exponent |-> e, modulus |-> m, userName |-> u, expireOn |-> x]

Lines ==
    { BadLine("empty"), BadLine("garbage"),
      KeyLine("AQAB", "xyz", "bob", "t1"),
      KeyLine("AQAB", "xyz", "bob", "t2"),
      KeyLine("AQAB", "xyz", "bob", "notatime"),
      KeyLine("", "xyz", "bob", "t2"),
      KeyLine("AQAB", "", "bob", "t2"),
      KeyLine("AQAB", "xyz", "", "t2") }

\* A windows-keys attribute on the wire, as the sequence of lines that
\* strings.Split(s, "\n") yields.  Split never yields the empty sequence (the
\* empty string gives one empty line), so << >> stands for an attributes
\* object without the windows-keys member: UnmarshalJSON is then not called.
KeyListsUpTo(n) == UNION { [1..k -> Lines] : k \in 0..n }

\* The four boolean-like members of an attributes object, by the field of
\* attributesJSON they are decoded into.
BoolNames ==
    {"DisableAddressManager", "DisableAccountManager", "EnableDiagnostics", "EnableWSFC"}
\* A member on the wire: << >> when the object does not have it, << s >> when
\* it is the JSON string s.
BoolWire == { << >>, << "" >>, << "true" >>, << "false" >>, << "yes" >> }
NoBools == [n \in BoolNames |-> << >>]

\* Response bodies.  status "ok" is a document that decodes; "syntax" is not
\* JSON at all (json.Unmarshal rejects it before decoding anything); "type"
\* is valid JSON with a member of the wrong JSON type outside the
\* windows-keys strings (json.Unmarshal decodes everything else and returns
\* the type error at the end).  The document lists instance before project.
Bodies(n) ==
    { [status |-> "syntax", instance |-> [windows_keys |-> << >>, bools |-> NoBools],
                            project  |-> [windows_keys |-> << >>, bools |-> NoBools]] }
    \cup
    UNION { { [status   |-> s,
               instance |-> [windows_keys |-> l1, bools |-> NoBools],
               project  |-> [windows_keys |-> l2, bools |-> NoBools]] :
                 s \in {"ok", "type"}, l2 \in KeyListsUpTo(n - Len(l1)) } :
            l1 \in KeyListsUpTo(n) }

\* Bodies that decode, without key lists, whose instance or project
\* attributes carry the boolean-like members.
BoolBodies ==
    { [status |-> "ok", instance |-> [windows_keys |-> << >>, bools |-> bs],
                        project  |-> [windows_keys |-> << >>, bools |-> NoBools]] :
        bs \in [BoolNames -> BoolWire] }
    \cup
    { [status |-> "ok", instance |-> [windows_keys |-> << >>, bools |-> NoBools],
                        project  |-> [windows_keys |-> << >>, bools |-> bs]] :
        bs \in [BoolNames -> BoolWire] }

\* ------------------------------------------------------------------------
\* Key validator and malformed-entry memo
\* ------------------------------------------------------------------------
\* json.Unmarshal([]byte(jskey), &wk): the wire names map to the typed fields.
UnmarshalKey(line) ==
    [err |-> line.syntax # "object",
     wk  |-> [Exponent |-> line.exponent, Modulus |-> line.modulus,
              UserName |-> line.userName, ExpireOn |-> line.expireOn]]

\* wk.expired(): parse the expiry and compare it with the current time; an
\* expiry that does not parse counts as not expired.
expired(wk, now) ==
    IF wk.ExpireOn \in DOMAIN TimeOf THEN TimeOf[wk.ExpireOn] < now ELSE FALSE

containsString(s, list) == \E i \in 1..Len(list) : list[i] = s

\* KeyStep with the memo append left out: the line is logged, never remembered.
KeyStep_NoMemo(acc, jskey, now) ==
    LET r == UnmarshalKey(jskey) IN
    IF r.err
    THEN IF ~containsString(jskey, acc.bad)
         THEN [acc EXCEPT !.log = Append(@, jskey)]
         ELSE acc
    ELSE IF /\ r.wk.Exponent # ""
            /\ r.wk.Modulus # ""
            /\ r.wk.UserName # ""
            /\ ~expired(r.wk, now)
         THEN [acc EXCEPT !.wks = Append(@, r.wk)]
         ELSE acc

\* KeyStep that puts an accepted key in front of the receiver instead of after it.
KeyStep_Prepend(acc, jskey, now) ==
    LET r == UnmarshalKey(jskey) IN
    IF r.err
    THEN IF ~containsString(jskey, acc.bad)
         THEN [acc EXCEPT !.log = Append(@, jskey), !.bad = Append(@, jskey)]
         ELSE acc
    ELSE IF /\ r.wk.Exponent # ""
            /\ r.wk.Modulus # ""
            /\ r.wk.UserName # ""
            /\ ~expired(r.wk, now)
         THEN [acc EXCEPT !.wks = << r.wk >> \o @]
         ELSE acc

\* KeyStep that also reports and remembers a line the validator rejects.
KeyStep_MemoRejected(acc, jskey, now) ==
    LET r == UnmarshalKey(jskey) IN
    IF r.err
    THEN IF ~containsString(jskey, acc.bad)
         THEN [acc EXCEPT !.log = Append(@, jskey), !.bad = Append(@, jskey)]
         ELSE acc
    ELSE IF /\ r.wk.Exponent # ""
            /\ r.wk.Modulus # ""
            /\ r.wk.UserName # ""
            /\ ~expired(r.wk, now)
         THEN [acc EXCEPT !.wks = Append(@, r.wk)]
         ELSE IF ~containsString(jskey, acc.bad)
              THEN [acc EXCEPT !.log = Append(@, jskey), !.bad = Append(@, jskey)]
              ELSE acc

\* KeyStep without the lookup in the memo.
KeyStep_NoLookup(acc, jskey, now) ==
    LET r == UnmarshalKey(jskey) IN
    IF r.err
    THEN [acc EXCEPT !.log = Append(@, jskey), !.bad = Append(@, jskey)]
    ELSE IF /\ r.wk.Exponent # ""
            /\ r.wk.Modulus # ""
            /\ r.wk.UserName # ""
            /\ ~expired(r.wk, now)
         THEN [acc EXCEPT !.wks = Append(@, r.wk)]
         ELSE acc

\* One iteration of the loop of windowsKeys.UnmarshalJSON.  acc carries the
\* receiver (wks), the memo (bad) and the diagnostics emitted so far (log).
KeyStep(acc, jskey, now) ==
    LET r == UnmarshalKey(jskey) IN
    IF r.err
    THEN IF ~containsString(jskey, acc.bad)
         THEN [acc EXCEPT !.log = Append(@, jskey), !.bad = Append(@, jskey)]
         ELSE acc
    ELSE IF /\ r.wk.Exponent # ""
            /\ r.wk.Modulus # ""
            /\ r.wk.UserName # ""
            /\ ~expired(r.wk, now)
         THEN [acc EXCEPT !.wks = Append(@, r.wk)]
         ELSE acc

RECURSIVE KeyLoop(_, _, _)
KeyLoop(acc, lines, now) ==
    IF lines = << >> THEN acc
    ELSE KeyLoop(KeyStep(acc, Head(lines), now), Tail(lines), now)

\* windowsKeys.UnmarshalJSON on a receiver that holds no keys yet.
UnmarshalKeys(lines, bad, log, now) ==
    KeyLoop([wks |-> << >>, bad |-> bad, log |-> log], lines, now)

\* ------------------------------------------------------------------------
\* Attribute and snapshot decoders
\* ------------------------------------------------------------------------
\* The zero value of attributesJSON and of metadataJSON (var metadata).  A
\* *bool field is "absent" (nil), "true" or "false" (what it points to).  The
\* plain strings Diagnostics, WSFCAddresses and WSFCAgentPort are copied as
\* they come and are left out.
ZeroAttributes ==
    [WindowsKeys |-> << >>,
     DisableAddressManager |-> "absent", DisableAccountManager |-> "absent",
     EnableDiagnostics |-> "absent", EnableWSFC |-> "absent"]
ZeroMetadata ==
    [Instance |-> [Attributes |-> ZeroAttributes],
     Project  |-> [Attributes |-> ZeroAttributes]]

\* strconv.ParseBool: the value is false when err is set.
ParseBool(str) ==
    IF str \in {"1", "t", "T", "TRUE", "true", "True"} THEN [value |-> TRUE, err |-> FALSE]
    ELSE IF str \in {"0", "f", "F", "FALSE", "false", "False"} THEN [value |-> FALSE, err |-> FALSE]
    ELSE [value |-> FALSE, err |-> TRUE]

\* The string field of temp a member is decoded into: "" when it is missing.
TempString(w) == IF w = << >> THEN "" ELSE w[1]

\* The four ParseBool blocks of attributesJSON.UnmarshalJSON.  Every result
\* is assigned to the one variable value, and every field that parsed is set
\* to &value: after the fourth block these fields all point to what the
\* fourth ParseBool (of temp.EnableWSFC) left in value.
ParseBools(bools) ==
    LET last == ParseBool(TempString(bools["EnableWSFC"])).value
    IN [n \in BoolNames |->
          IF ParseBool(TempString(bools[n])).err THEN "absent"
          ELSE IF last THEN "true" ELSE "false"]

\* attributesJSON.UnmarshalJSON on a zero receiver.  The windows-keys string
\* is decoded into temp.WindowsKeys; the receiver's WindowsKeys field is not
\* assigned from it, so it keeps its zero value.  temp is the local the
\* keys were decoded into.
AttributesUnmarshal(payload, bad, log, now) ==
    LET r == IF payload.windows_keys = << >>
             THEN [wks |-> << >>, bad |-> bad, log |-> log]
             ELSE UnmarshalKeys(payload.windows_keys, bad, log, now)
        pb == ParseBools(payload.bools)
    IN [a    |-> [WindowsKeys |-> << >>,
                  DisableAddressManager |-> pb["DisableAddressManager"],
                  DisableAccountManager |-> pb["DisableAccountManager"],
                  EnableDiagnostics     |-> pb["EnableDiagnostics"],
                  EnableWSFC            |-> pb["EnableWSFC"]],
        temp |-> r.wks,
        bad  |-> r.bad,
        log  |-> r.log]

NoTemp == [instance |-> << >>, project |-> << >>]

\* json.Unmarshal(md, &metadata)
MetadataUnmarshal(b, bad, log, now) ==
    IF b.status = "syntax"
    THEN [md |-> ZeroMetadata, err |-> TRUE, bad |-> bad, log |-> log, temp |-> NoTemp]
    ELSE LET i == AttributesUnmarshal(b.instance, bad, log, now)
             p == AttributesUnmarshal(b.project, i.bad, i.log, now)
         IN [md   |-> [Instance |-> [Attributes |-> i.a],
                       Project  |-> [Attributes |-> p.a]],
             err  |-> (b.status = "type"),
             bad  |-> p.bad,
             log  |-> p.log,
             temp |-> [instance |-> i.temp, project |-> p.temp]]

\* ------------------------------------------------------------------------
\* Change gate
\* ------------------------------------------------------------------------
\* updateEtag that compares the raw header, before the sentinel is substituted.
updateEtag_Raw(old, hdr) ==
    LET new == IF hdr = "" THEN defaultEtag ELSE hdr
    IN [etag |-> new, changed |-> (hdr # old)]

\* updateEtag without the substitution of the sentinel.
updateEtag_NoDefault(old, hdr) ==
    [etag |-> hdr, changed |-> (hdr # old)]

\* updateEtag(resp): the new value of etag and the returned boolean.
updateEtag(old, hdr) ==
    LET new == IF hdr = "" THEN defaultEtag ELSE hdr
    IN [etag |-> new, changed |-> (new # old)]

\* ------------------------------------------------------------------------
\* Fetcher
\* ------------------------------------------------------------------------
metadataURL == "http://metadata.google.internal/computeMetadata/v1/"
metadataRecursive == "/?recursive=true&alt=json"
metadataHang == "&wait_for_change=true&timeout_sec=60"

\* finalURL with metadataHang appended whatever hang is.
finalURL_AlwaysHang(h, tok) ==
    << metadataURL, metadataRecursive, metadataHang, "&last_etag=", tok >>

\* finalURL that sends the sentinel instead of the stored token.
finalURL_DefaultToken(h, tok) ==
    LET base == << metadataURL, metadataRecursive >>
        hung == IF h THEN Append(base, metadataHang) ELSE base
    IN hung \o << "&last_etag=", defaultEtag >>

\* finalURL, as the sequence of the strings it is concatenated from.
finalURL(h, tok) ==
    LET base == << metadataURL, metadataRecursive >>
        hung == IF h THEN Append(base, metadataHang) ELSE base
    IN hung \o << "&last_etag=", tok >>
NoURL == << >>

\* afterDo without the check of ctx.Err().
afterDo_IgnoreCtx(err, ctxErr) ==
    IF err THEN "error" ELSE "proceed"

\* afterDo that treats every failure of the transport as a graceful stop.
afterDo_SwallowErr(err, ctxErr) ==
    IF err THEN "noResult" ELSE "proceed"

\* afterDo that stops gracefully whenever the context is cancelled, whether
\* client.Do failed or not.
afterDo_CtxOnly(err, ctxErr) ==
    IF ctxErr THEN "noResult"
    ELSE IF err THEN "error"
    ELSE "proceed"

\* What getMetadata does with the outcome of client.Do: the two checks on
\* err and ctx.Err() that follow the call.
afterDo(err, ctxErr) ==
    IF err /\ ctxErr THEN "noResult"
    ELSE IF err THEN "error"
    ELSE "proceed"

\* gate without the test of hang.
gate_Always(h, old, hdr) ==
    [etag |-> updateEtag(old, hdr).etag,
     ret  |-> [called |-> TRUE, changed |-> updateEtag(old, hdr).changed]]

\* The etag after "if hang { updateEtag(resp) }".
gate(h, old, hdr) ==
    IF h THEN [etag |-> updateEtag(old, hdr).etag,
               ret  |-> [called |-> TRUE, changed |-> updateEtag(old, hdr).changed]]
         ELSE [etag |-> old, ret |-> [called |-> FALSE, changed |-> FALSE]]
NoUpdate == [called |-> FALSE, changed |-> FALSE]

\* Return values of getMetadata: ptr says whether the first value is a
\* non-nil *metadataJSON, md is what it points to, err is "nil" or the kind
\* of error.
Return(ptr, md, err) == [done |-> TRUE, ptr |-> ptr, md |-> md, err |-> err]
NoReturn == [done |-> FALSE, ptr |-> FALSE, md |-> ZeroMetadata, err |-> "nil"]
NoBody == [status |-> "none", instance |-> [windows_keys |-> << >>, bools |-> NoBools],
                              project  |-> [windows_keys |-> << >>, bools |-> NoBools]]

VARIABLES
    etag,        \* the package variable etag
    badKeys,     \* the package variable badKeys, the malformed-entry memo
    logged,      \* the lines logger.Errorf was called for, in order
    pc,          \* "idle", "inDo" (in client.Do) or "inRead" (in ioutil.ReadAll)
    hang,        \* the hang argument of the current or last call
    cancelAt,    \* when ctx was cancelled: "never", "before" the call, "inDo", "inRead"
    url,         \* finalURL of the request in flight
    transport,   \* outcome of client.Do: "none", "ok" or "failed"
    respTok,     \* resp.Header.Get("etag") of the response being read
    changed,     \* what updateEtag returned for the response being read
    prevPollTok, \* token of the latest long-poll response, "NONE" if it had none
    body,        \* the body decoded by the last call
    clock,       \* the time.Now() the last decode ran at
    tempKeys,    \* temp.WindowsKeys of the two attributes decodes of the last call
    ret,         \* what the last call returned
    outcomes,    \* SpecWatch: body, return values and updateEtag's boolean of
                 \* the long-poll calls so far that decoded a body
    procs        \* SpecConcurrent: the two goroutines that call watchMetadata

vars == << etag, badKeys, logged, pc, hang, cancelAt, url, transport, respTok,
           changed, prevPollTok, body, clock, tempKeys, ret, outcomes, procs >>

\* The goroutines of SpecConcurrent.  Of each: where it is in watchMetadata
\* (at), the etag header of its response (hdr), the local oldEtag (old), what
\* its updateEtag returned (chg), the lines of its key list still to decode
\* (todo), the badKeys it read for the append (snap), the calls it has left.
Procs == {1, 2}
IdleProc(n) ==
    [at |-> "idle", hdr |-> "", old |-> "", chg |-> FALSE, todo |-> << >>,
     snap |-> << >>, left |-> n]

Init ==
    /\ etag = defaultEtag
    /\ badKeys = << >>
    /\ logged = << >>
    /\ pc = "idle"
    /\ hang = FALSE
    /\ cancelAt = "never"
    /\ url = NoURL
    /\ transport = "none"
    /\ respTok = ""
    /\ changed = NoUpdate
    /\ prevPollTok = defaultEtag
    /\ body = NoBody
    /\ clock = 1
    /\ tempKeys = NoTemp
    /\ ret = NoReturn
    /\ outcomes = {}
    /\ procs = [p \in Procs |-> IdleProc(MaxFetches)]

\* getMetadata(ctx, h) up to the point where client.Do is waiting; c says
\* whether ctx is already cancelled.  watchMetadata is the call with h = TRUE.
\* http.NewRequest gets "GET" and a URL made of constants and a URL-safe
\* token, so its error return is not taken.
Call(h, c) ==
    /\ pc = "idle"
    /\ pc' = "inDo"
    /\ hang' = h
    /\ cancelAt' = IF c THEN "before" ELSE "never"
    /\ url' = finalURL(h, etag)
    /\ transport' = "none"
    /\ respTok' = ""
    /\ changed' = NoUpdate
    /\ body' = NoBody
    /\ clock' = 1
    /\ tempKeys' = NoTemp
    /\ ret' = NoReturn
    /\ UNCHANGED << etag, badKeys, logged, prevPollTok, outcomes, procs >>

\* The environment cancels ctx while the call is suspended.
Cancel ==
    /\ pc \in {"inDo", "inRead"}
    /\ cancelAt = "never"
    /\ cancelAt' = pc
    /\ UNCHANGED << etag, badKeys, logged, pc, hang, url, transport, respTok,
                    changed, prevPollTok, body, clock, tempKeys, ret, outcomes, procs >>

\* client.Do returns.  failed is its err # nil; hdr is the etag header of the
\* response when there is one.  A request whose context is cancelled before
\* it is sent always fails.  From there to the start of ioutil.ReadAll.
DoReturn(failed, hdr) ==
    /\ pc = "inDo"
    /\ (cancelAt = "before") => failed
    /\ transport' = IF failed THEN "failed" ELSE "ok"
    /\ url' = NoURL
    /\ LET out == afterDo(failed, cancelAt # "never")
           g   == gate(hang, etag, hdr)
       IN IF out = "proceed"
          THEN /\ etag' = g.etag
               /\ changed' = g.ret
               /\ respTok' = hdr
               /\ prevPollTok' = IF hang THEN (IF hdr = "" THEN "NONE" ELSE hdr)
                                         ELSE prevPollTok
               /\ pc' = "inRead"
               /\ ret' = ret
          ELSE /\ pc' = "idle"
               /\ ret' = Return(FALSE, ZeroMetadata,
                                IF out = "noResult" THEN "nil" ELSE "transport")
               /\ UNCHANGED << etag, changed, respTok, prevPollTok >>
    /\ UNCHANGED << badKeys, logged, hang, cancelAt, body, clock, tempKeys, outcomes,
                    procs >>

\* ReadAndDecode that returns nil, nil for a long-poll response whose token
\* is the stored one.
ReadAndDecode_NilWhenUnchanged(failed, b, now) ==
    /\ pc = "inRead"
    /\ pc' = "idle"
    /\ respTok' = ""
    /\ changed' = NoUpdate
    /\ IF failed
       THEN /\ ret' = Return(FALSE, ZeroMetadata, "read")
            /\ UNCHANGED << badKeys, logged, body, clock, tempKeys >>
       ELSE LET d == MetadataUnmarshal(b, badKeys, logged, now)
            IN /\ ret' = IF changed.called /\ ~changed.changed
                         THEN Return(FALSE, ZeroMetadata, "nil")
                         ELSE Return(TRUE, d.md, IF d.err THEN "decode" ELSE "nil")
               /\ badKeys' = d.bad
               /\ logged' = d.log
               /\ body' = b
               /\ clock' = now
               /\ tempKeys' = d.temp
    /\ UNCHANGED << etag, hang, cancelAt, url, transport, prevPollTok, procs >>

\* ReadAndDecode that skips the decode of a long-poll response whose token is
\* the stored one and returns the zero metadataJSON.
ReadAndDecode_SkipWhenUnchanged(failed, b, now) ==
    /\ pc = "inRead"
    /\ pc' = "idle"
    /\ respTok' = ""
    /\ changed' = NoUpdate
    /\ IF failed
       THEN /\ ret' = Return(FALSE, ZeroMetadata, "read")
            /\ UNCHANGED << badKeys, logged, body, clock, tempKeys >>
       ELSE LET d == IF changed.called /\ ~changed.changed
                     THEN [md |-> ZeroMetadata, err |-> FALSE, bad |-> badKeys,
                           log |-> logged, temp |-> NoTemp]
                     ELSE MetadataUnmarshal(b, badKeys, logged, now)
            IN /\ ret' = Return(TRUE, d.md, IF d.err THEN "decode" ELSE "nil")
               /\ badKeys' = d.bad
               /\ logged' = d.log
               /\ body' = b
               /\ clock' = now
               /\ tempKeys' = d.temp
    /\ UNCHANGED << etag, hang, cancelAt, url, transport, prevPollTok, procs >>

\* ioutil.ReadAll returns; failed is its err # nil, b the bytes read and now
\* the clock during the decode.  Through json.Unmarshal to the return.
ReadAndDecode(failed, b, now) ==
    /\ pc = "inRead"
    /\ pc' = "idle"
    /\ respTok' = ""
    /\ changed' = NoUpdate
    /\ IF failed
       THEN /\ ret' = Return(FALSE, ZeroMetadata, "read")
            /\ UNCHANGED << badKeys, logged, body, clock, tempKeys >>
       ELSE LET d == MetadataUnmarshal(b, badKeys, logged, now)
            IN /\ ret' = Return(TRUE, d.md, IF d.err THEN "decode" ELSE "nil")
               /\ badKeys' = d.bad
               /\ logged' = d.log
               /\ body' = b
               /\ clock' = now
               /\ tempKeys' = d.temp
    /\ UNCHANGED << etag, hang, cancelAt, url, transport, prevPollTok, procs >>

ReadReturn(failed, b, now) ==
    /\ ReadAndDecode(failed, b, now)
    /\ UNCHANGED outcomes

\* ReadReturn, with the outcome of a long-poll call that decoded a body
\* added to outcomes.
WatchReturn(failed, b, now) ==
    /\ ReadAndDecode(failed, b, now)
    /\ outcomes' = IF hang /\ ~failed /\ b.status = "ok"
                   THEN outcomes \cup
                        { [body |-> b, ret |-> ret', changed |-> changed.changed] }
                   ELSE outcomes

Next ==
    \/ \E h \in BOOLEAN, c \in BOOLEAN : Call(h, c)
    \/ Cancel
    \/ \E f \in BOOLEAN, hdr \in HeaderValues : DoReturn(f, hdr)
    \/ /\ pc = "inRead"
       /\ \E f \in BOOLEAN, b \in Bodies(MaxBodyLines), now \in Times :
             ReadReturn(f, b, now)

Spec == Init /\ [][Next]_vars

\* The watch loop of a caller that never cancels, against a server that always
\* answers, with no etag header: the same calls, with longer key lists.
NextDecode ==
    \/ Call(TRUE, FALSE)
    \/ DoReturn(FALSE, "")
    \/ /\ pc = "inRead"
       /\ \E b \in Bodies(MaxLines), now \in Times : ReadReturn(FALSE, b, now)

SpecDecode == Init /\ [][NextDecode]_vars

\* Every call, outcome of the transport and cancellation, with bodies without
\* key lists, and the outcomes of the long-poll calls recorded.
NextWatch ==
    \/ \E h \in BOOLEAN, c \in BOOLEAN : Call(h, c)
    \/ Cancel
    \/ \E f \in BOOLEAN, hdr \in HeaderValues : DoReturn(f, hdr)
    \/ /\ pc = "inRead"
       /\ \E f \in BOOLEAN, b \in Bodies(0), now \in Times : WatchReturn(f, b, now)

SpecWatch == Init /\ [][NextWatch]_vars

\* ------------------------------------------------------------------------
\* Two goroutines in watchMetadata at once, with no lock around etag and
\* badKeys.  A step is one read or one write of a package variable.
\* ------------------------------------------------------------------------
callVars == << pc, hang, cancelAt, url, transport, respTok, changed, prevPollTok,
               body, clock, tempKeys, ret, outcomes >>

\* The key lists of the bodies: no line, or one line that does not decode
\* (the only lines the decode of which touches badKeys).
FailingKeyLists == { << >>, << BadLine("garbage") >> }

\* getMetadata up to client.Do.
ConcCall(p) ==
    /\ procs[p].at = "idle"
    /\ procs[p].left > 0
    /\ procs' = [procs EXCEPT ![p].at = "inDo", ![p].left = @ - 1]
    /\ UNCHANGED << etag, badKeys, logged, callVars >>

\* client.Do returns a response with the etag header h; lines is the key list
\* of the body that ioutil.ReadAll will read.
ConcResponse(p, h, lines) ==
    /\ procs[p].at = "inDo"
    /\ procs' = [procs EXCEPT ![p].at = "readOld", ![p].hdr = h, ![p].todo = lines]
    /\ UNCHANGED << etag, badKeys, logged, callVars >>

\* updateEtag: oldEtag := etag
ConcReadOld(p) ==
    /\ procs[p].at = "readOld"
    /\ procs' = [procs EXCEPT ![p].at = "write", ![p].old = etag]
    /\ UNCHANGED << etag, badKeys, logged, callVars >>

\* updateEtag: etag = resp.Header.Get("etag")
ConcWrite(p) ==
    /\ procs[p].at = "write"
    /\ etag' = procs[p].hdr
    /\ procs' = [procs EXCEPT ![p].at = "default"]
    /\ UNCHANGED << badKeys, logged, callVars >>

\* updateEtag: if etag == "" { etag = defaultEtag }
ConcDefault(p) ==
    /\ procs[p].at = "default"
    /\ etag' = IF etag = "" THEN defaultEtag ELSE etag
    /\ procs' = [procs EXCEPT ![p].at = "compare"]
    /\ UNCHANGED << badKeys, logged, callVars >>

\* updateEtag: return etag != oldEtag
ConcCompare(p) ==
    /\ procs[p].at = "compare"
    /\ procs' = [procs EXCEPT ![p].at = "decode", ![p].chg = (etag # procs[p].old)]
    /\ UNCHANGED << etag, badKeys, logged, callVars >>

\* ConcLookup without the lookup in badKeys.
ConcLookup_NoLookup(p) ==
    /\ procs[p].at = "decode"
    /\ IF procs[p].todo = << >>
       THEN /\ procs' = [procs EXCEPT ![p].at = "idle"]
            /\ UNCHANGED logged
       ELSE IF UnmarshalKey(Head(procs[p].todo)).err
            THEN /\ logged' = Append(logged, Head(procs[p].todo))
                 /\ procs' = [procs EXCEPT ![p].at = "appendRead"]
            ELSE /\ procs' = [procs EXCEPT ![p].todo = Tail(@)]
                 /\ UNCHANGED logged
    /\ UNCHANGED << etag, badKeys, callVars >>

\* windowsKeys.UnmarshalJSON: the next line of the loop, up to the call of
\* logger.Errorf; the return to the caller when no line is left.
ConcLookup(p) ==
    /\ procs[p].at = "decode"
    /\ IF procs[p].todo = << >>
       THEN /\ procs' = [procs EXCEPT ![p].at = "idle"]
            /\ UNCHANGED logged
       ELSE IF /\ UnmarshalKey(Head(procs[p].todo)).err
               /\ ~containsString(Head(procs[p].todo), badKeys)
            THEN /\ logged' = Append(logged, Head(procs[p].todo))
                 /\ procs' = [procs EXCEPT ![p].at = "appendRead"]
            ELSE /\ procs' = [procs EXCEPT ![p].todo = Tail(@)]
                 /\ UNCHANGED logged
    /\ UNCHANGED << etag, badKeys, callVars >>

\* badKeys = append(badKeys, jskey): the read of badKeys
ConcAppendRead(p) ==
    /\ procs[p].at = "appendRead"
    /\ procs' = [procs EXCEPT ![p].at = "appendWrite", ![p].snap = badKeys]
    /\ UNCHANGED << etag, badKeys, logged, callVars >>

\* badKeys = append(badKeys, jskey): the write of badKeys
ConcAppendWrite(p) ==
    /\ procs[p].at = "appendWrite"
    /\ badKeys' = Append(procs[p].snap, Head(procs[p].todo))
    /\ procs' = [procs EXCEPT ![p].at = "decode", ![p].todo = Tail(@), ![p].snap = << >>]
    /\ UNCHANGED << etag, logged, callVars >>

NextConcurrent ==
    \E p \in Procs :
        \/ ConcCall(p)
        \/ \E h \in {"", "e1"}, lines \in FailingKeyLists : ConcResponse(p, h, lines)
        \/ ConcReadOld(p)
        \/ ConcWrite(p)
        \/ ConcDefault(p)
        \/ ConcCompare(p)
        \/ ConcLookup(p)
        \/ ConcAppendRead(p)
        \/ ConcAppendWrite(p)

SpecConcurrent == Init /\ [][NextConcurrent]_vars

\* The same watch loop against a server whose token moves, with bodies that
\* carry the boolean-like attributes or a short key list.
NextAttributes ==
    \/ Call(TRUE, FALSE)
    \/ \E hdr \in {"", "e1"} : DoReturn(FALSE, hdr)
    \/ /\ pc = "inRead"
       /\ \E b \in BoolBodies \cup Bodies(MaxBodyLines), now \in Times :
             ReadReturn(FALSE, b, now)

SpecAttributes == Init /\ [][NextAttributes]_vars

\* ------------------------------------------------------------------------
\* Properties
\* ------------------------------------------------------------------------
\* The token a response carries, with the sentinel for a response without one.
Normalised(hdr) == IF hdr = "" THEN "NONE" ELSE hdr

Count(seq, x) == Cardinality({ i \in 1..Len(seq) : seq[i] = x })
InSeq(seq, x) == Count(seq, x) > 0

\* The step in which client.Do returns a response of a long-poll fetch.
PollResponse == pc = "inDo" /\ pc' = "inRead" /\ hang
\* The step in which a call decodes a body.
DecodeStep == pc = "inRead" /\ pc' = "idle" /\ body' # NoBody

\* C1: updateEtag returns true exactly when the normalised token of the
\* response differs from the token stored just before the call; so a
\* long-poll response reports changed exactly when its token differs from
\* the token of the previous long-poll response ("NONE" before the first).
C1_ChangedIffTokenDiffers ==
    [][PollResponse =>
        /\ changed'.called
        /\ changed'.changed = (Normalised(respTok') # etag)
        /\ changed'.changed = (Normalised(respTok') # prevPollTok)]_vars

\* A second long-poll response with the token of the first reported unchanged.
C1_Witness ==
    pc = "inRead" /\ hang /\ respTok = "e1" /\ changed.called /\ ~changed.changed

\* C2: after a long-poll fetch whose transport succeeded the stored token is
\* the token of that response ("NONE" if it had none), right after the
\* response and still when the call returns, whatever the body read and the
\* decode do; the stored token is never the empty string.
C2_TokenFollowsResponse ==
    /\ [](etag # "")
    /\ [][(pc = "inDo" /\ hang /\ transport' = "ok") =>
            etag' = Normalised(respTok')]_vars
    /\ [][(pc = "inRead" /\ pc' = "idle" /\ hang) =>
            (ret'.done /\ etag' = Normalised(respTok))]_vars

\* A long-poll fetch whose body read or decode failed left the token of its
\* response stored.
C2_Witness ==
    /\ ret.done /\ hang /\ transport = "ok"
    /\ ret.err \in {"read", "decode"}
    /\ etag = "e2" /\ prevPollTok = "e2"

\* C3: an immediate read (hang = false) leaves the stored token as it was,
\* whatever its outcome; the token changes only when client.Do returns a
\* response to a long-poll fetch.
C3_ImmediateReadKeepsToken ==
    /\ [][(pc # "idle" /\ ~hang) => etag' = etag]_vars
    /\ [][(etag' # etag) => (pc = "inDo" /\ hang /\ transport' = "ok")]_vars

\* An immediate read got a response with a token other than the stored one.
C3_Witness ==
    pc = "inRead" /\ ~hang /\ respTok = "e2" /\ etag = "e1"

\* C4: a call whose context is cancelled before the call returns nil, nil,
\* whatever the stored token and the memo are, and reads no response.
C4_PreCancelledIsNoResult ==
    /\ (cancelAt = "before") => pc # "inRead"
    /\ (ret.done /\ cancelAt = "before") => (~ret.ptr /\ ret.err = "nil")

\* A long-poll call with a cancelled context returned, with a token and a
\* malformed line stored by earlier fetches.
C4_Witness ==
    /\ ret.done /\ cancelAt = "before" /\ hang
    /\ etag = "e1" /\ badKeys # << >>

\* C5: a call whose context is cancelled while it is suspended in the HTTP
\* request, between sending it and the end of the body read, returns nil,
\* nil and never an error.
C5_CancelledInFlightIsNoResult ==
    (ret.done /\ cancelAt \in {"inDo", "inRead"}) => (~ret.ptr /\ ret.err = "nil")

\* C6: when client.Do fails and the context is not cancelled, the call
\* returns an error and no snapshot, decodes nothing, and leaves the stored
\* token and the memo as they were.
C6_TransportFailureIsError ==
    [][(pc = "inDo" /\ transport' = "failed" /\ cancelAt = "never") =>
        /\ pc' = "idle"
        /\ ret'.done /\ ~ret'.ptr /\ ret'.err # "nil"
        /\ body' = NoBody /\ tempKeys' = NoTemp
        /\ etag' = etag /\ badKeys' = badKeys /\ logged' = logged]_vars

\* A long-poll fetch failed in the transport, with a token and a malformed
\* line stored by earlier fetches.
C6_Witness ==
    /\ ret.done /\ transport = "failed" /\ cancelAt = "never" /\ hang
    /\ etag = "e1" /\ badKeys # << >>

\* C7: when json.Unmarshal of the body fails, the call returns an error and
\* no snapshot: no pointer to a metadataJSON comes with the error.
C7_DecodeFailureReturnsNoSnapshot ==
    (ret.done /\ ret.err = "decode") => ~ret.ptr

\* C8: each distinct malformed line is logged exactly once while the memo
\* lives: no line is logged twice, a line in the memo is not logged again,
\* and a malformed line of a decoded body that is not in the memo is logged
\* once and is in the memo afterwards.
C8_OneDiagnosticPerLine ==
    /\ [](\A l \in Lines : Count(logged, l) <= 1)
    /\ [][\A l \in Lines : InSeq(badKeys, l) => Count(logged', l) = Count(logged, l)]_vars
    /\ [][(DecodeStep /\ body'.status # "syntax") =>
            \A sec \in {"instance", "project"} :
              \A i \in 1..Len(body'[sec].windows_keys) :
                LET l == body'[sec].windows_keys[i] IN
                (l.syntax # "object" /\ ~InSeq(badKeys, l)) =>
                    /\ Count(logged', l) = Count(logged, l) + 1
                    /\ Count(badKeys', l) = 1]_vars

\* A body with the same malformed line in the instance and in the project
\* key list was decoded after an earlier body that had it too.
C8_Witness ==
    /\ ret.done /\ body.status = "ok"
    /\ body.instance.windows_keys = << BadLine("garbage") >>
    /\ body.project.windows_keys = << BadLine("garbage") >>
    /\ logged = << BadLine("empty"), BadLine("garbage") >>

\* A line that decodes into a key the validator accepts at time t.
WellFormedAt(l, t) ==
    /\ l.syntax = "object"
    /\ l.exponent # "" /\ l.modulus # "" /\ l.userName # ""
    /\ ~(l.expireOn \in DOMAIN TimeOf /\ TimeOf[l.expireOn] < t)

TypedKey(l) ==
    [Exponent |-> l.exponent, Modulus |-> l.modulus,
     UserName |-> l.userName, ExpireOn |-> l.expireOn]

\* keys is the keys of the well-formed lines of lines, in the order of lines.
KeysOfWellFormed(lines, keys, t) ==
    LET good == { i \in 1..Len(lines) : WellFormedAt(lines[i], t) } IN
    /\ Len(keys) = Cardinality(good)
    /\ \E f \in [1..Len(keys) -> good] :
         /\ \A j, k \in 1..Len(keys) : j < k => f[j] < f[k]
         /\ \A j \in 1..Len(keys) : keys[j] = TypedKey(lines[f[j]])

\* C9: windowsKeys.UnmarshalJSON turns a list of N well-formed and M
\* malformed lines, in any order, into the N keys in the order of their
\* lines; a malformed line does not make the decode of the body fail.
C9_WellFormedLinesInOrder ==
    (ret.done /\ body.status # "none") =>
        /\ body.status # "syntax" =>
             \A sec \in {"instance", "project"} :
                KeysOfWellFormed(body[sec].windows_keys, tempKeys[sec], clock)
        /\ body.status = "ok" => (ret.ptr /\ ret.err = "nil")

\* Two keys decoded in the order of their lines; a malformed line before a key.
C9_Witness ==
    /\ ret.done /\ body.status = "ok" /\ ret.err = "nil"
    /\ \/ /\ Len(tempKeys.instance) = 2
          /\ tempKeys.instance[1].ExpireOn = "notatime"
          /\ tempKeys.instance[2].ExpireOn = "t2"
       \/ /\ Len(body.instance.windows_keys) = 2
          /\ body.instance.windows_keys[1] = BadLine("garbage")
          /\ Len(tempKeys.instance) = 1

\* C10: every key in the key sequences of a returned snapshot has an
\* exponent, a modulus and a user name and was not expired at the decode; a
\* line with these fields and an expiry that has not passed has its key in
\* the snapshot.
C10_SnapshotHoldsTheValidKeys ==
    (ret.done /\ ret.ptr /\ ret.err = "nil") =>
        /\ \A k \in { ret.md.Instance.Attributes.WindowsKeys[i] :
                          i \in 1..Len(ret.md.Instance.Attributes.WindowsKeys) } \cup
                     { ret.md.Project.Attributes.WindowsKeys[i] :
                          i \in 1..Len(ret.md.Project.Attributes.WindowsKeys) } :
              /\ k.Exponent # "" /\ k.Modulus # "" /\ k.UserName # ""
              /\ ~(k.ExpireOn \in DOMAIN TimeOf /\ TimeOf[k.ExpireOn] < clock)
        /\ \A i \in 1..Len(body.instance.windows_keys) :
              LET l == body.instance.windows_keys[i] IN
              (WellFormedAt(l, clock) /\ l.expireOn \in DOMAIN TimeOf) =>
                  InSeq(ret.md.Instance.Attributes.WindowsKeys, TypedKey(l))
        /\ \A i \in 1..Len(body.project.windows_keys) :
              LET l == body.project.windows_keys[i] IN
              (WellFormedAt(l, clock) /\ l.expireOn \in DOMAIN TimeOf) =>
                  InSeq(ret.md.Project.Attributes.WindowsKeys, TypedKey(l))

\* C11: each of the four boolean-like attributes, whatever the other three
\* are: "true" decodes to present and true, "false" to present and false, an
\* empty, missing or other non-boolean string to absent, and the decode
\* returns no error.
C11_BooleansDecodeIndependently ==
    (ret.done /\ body \in BoolBodies) =>
        /\ ret.ptr /\ ret.err = "nil"
        /\ \A n \in BoolNames :
             /\ ret.md.Instance.Attributes[n] =
                  (IF body.instance.bools[n] = << "true" >> THEN "true"
                   ELSE IF body.instance.bools[n] = << "false" >> THEN "false"
                   ELSE "absent")
             /\ ret.md.Project.Attributes[n] =
                  (IF body.project.bools[n] = << "true" >> THEN "true"
                   ELSE IF body.project.bools[n] = << "false" >> THEN "false"
                   ELSE "absent")

\* C12 as claimed: the outcome of a successful long-poll watch tells a
\* changed fetch from an unchanged one, so two such calls with the same
\* return values have the same changed boolean.
C12_OutcomeTellsChanged ==
    \A o1, o2 \in outcomes : (o1.ret = o2.ret) => (o1.changed = o2.changed)

\* C12: a successful long-poll watch returns the decoded snapshot and a nil
\* error and nothing else; the boolean of updateEtag is not part of the
\* outcome: calls that decode the same body return the same values whether
\* the token changed or not.
C12_OutcomeIsSnapshotOnly ==
    \A o1, o2 \in outcomes :
        /\ o1.ret.ptr /\ o1.ret.err = "nil"
        /\ (o1.body = o2.body) => (o1.ret = o2.ret)

\* A changed and an unchanged long-poll fetch both decoded a body.
C12_Witness ==
    \E o1, o2 \in outcomes : o1.changed /\ ~o2.changed

\* The parts of a request URL.
HasWaitDirective(u) == \E i \in 1..Len(u) : u[i] = "&wait_for_change=true&timeout_sec=60"
HasLastToken(u) == \E i \in 1..Len(u) : u[i] = "&last_etag="
LastToken(u) == u[(CHOOSE i \in 1..Len(u) : u[i] = "&last_etag=") + 1]

\* C13 as claimed: the wait-for-change directive and the last-known-token
\* parameter are both in the URL of a long-poll request and both missing
\* from the URL of an immediate read.
C13_BothParametersLongPollOnly ==
    (pc = "inDo") =>
        /\ HasWaitDirective(url) <=> hang
        /\ HasLastToken(url) <=> hang

\* C13: the wait-for-change directive is in the URL of the long-poll
\* requests only; the last-known-token parameter is in the URL of every
\* request, immediate reads included, and carries the stored token.
C13_WaitLongPollOnlyTokenAlways ==
    (pc = "inDo") =>
        /\ HasWaitDirective(url) <=> hang
        /\ HasLastToken(url)
        /\ LastToken(url) = etag

\* An immediate read in flight whose URL carries a token of an earlier
\* long-poll response.
C13_Witness ==
    pc = "inDo" /\ ~hang /\ HasLastToken(url) /\ LastToken(url) = "e1"

\* C14: the token in the URL of a long-poll request is the token of the
\* latest earlier long-poll response ("NONE" if it had none, or if there
\* was no such response); failed, cancelled and immediate fetches in
\* between do not change it.
C14_RequestCarriesLatestPollToken ==
    (pc = "inDo" /\ hang) => (HasLastToken(url) /\ LastToken(url) = prevPollTok)

\* A long-poll request in flight with the token of an earlier response,
\* after a malformed line was decoded.
C14_Witness ==
    pc = "inDo" /\ hang /\ LastToken(url) = "e2" /\ badKeys # << >>

\* The lines of the two key lists of a body whose structural decode fails.
FailingLines(b) ==
    { l \in Lines : /\ l.syntax # "object"
                    /\ \E sec \in {"instance", "project"} :
                         \E i \in 1..Len(b[sec].windows_keys) : b[sec].windows_keys[i] = l }

\* C15: a boolean attribute that does not parse and a key line that decodes
\* but is rejected by the validator log nothing and add nothing to the memo:
\* a decode changes the memo and the log only by lines of its body whose
\* structural decode fails.
C15_SilentRecoveriesKeepMemo ==
    [][DecodeStep =>
        /\ \A l \in Lines :
              (Count(badKeys', l) # Count(badKeys, l) \/ Count(logged', l) # Count(logged, l))
                  => l \in FailingLines(body')
        /\ (FailingLines(body') = {}) => (badKeys' = badKeys /\ logged' = logged)]_vars

\* With a malformed line in the memo, a body was decoded whose only key line
\* has no exponent; and one whose enable-wsfc is not a boolean.
C15_Witness ==
    /\ ret.done /\ ret.err = "nil"
    /\ badKeys = << BadLine("garbage") >> /\ logged = << BadLine("garbage") >>
    /\ \/ body.instance.windows_keys = << KeyLine("", "xyz", "bob", "t2") >>
       \/ body.instance.bools["EnableWSFC"] = << "yes" >>

IsPrefix(s1, s2) == Len(s1) <= Len(s2) /\ \A i \in 1..Len(s1) : s1[i] = s2[i]

\* C16: under sequential calls the memo holds no line twice, holds only
\* lines whose structural decode failed, and only grows at its end: what it
\* holds stays, in the same order.
C16_MemoAppendOnlySet ==
    /\ [](\A i \in 1..Len(badKeys) :
            /\ badKeys[i] \in Lines /\ badKeys[i].syntax # "object"
            /\ \A j \in 1..Len(badKeys) : badKeys[i] = badKeys[j] => i = j)
    /\ [][IsPrefix(badKeys, badKeys')]_vars

\* A body with twice a line the memo held already was decoded.
C16_Witness ==
    /\ ret.done
    /\ badKeys = << BadLine("garbage"), BadLine("empty") >>
    /\ body.instance.windows_keys = << BadLine("garbage"), BadLine("garbage") >>

\* C17: the snapshot a call returns is the one its body decodes to from an
\* empty memo, whatever the stored token, the memo and the earlier calls
\* were; an attribute is present in it only if the body has the member, and
\* a key only if the body has its line.
C17_SnapshotFromBodyAlone ==
    [][DecodeStep =>
        /\ ret'.md = MetadataUnmarshal(body', << >>, << >>, clock').md
        /\ \A n \in BoolNames :
              /\ ret'.md.Instance.Attributes[n] # "absent" => body'.instance.bools[n] # << >>
              /\ ret'.md.Project.Attributes[n] # "absent" => body'.project.bools[n] # << >>
        /\ \A i \in 1..Len(ret'.md.Instance.Attributes.WindowsKeys) :
              \E j \in 1..Len(body'.instance.windows_keys) :
                 ret'.md.Instance.Attributes.WindowsKeys[i] = TypedKey(body'.instance.windows_keys[j])
        /\ \A i \in 1..Len(ret'.md.Project.Attributes.WindowsKeys) :
              \E j \in 1..Len(body'.project.windows_keys) :
                 ret'.md.Project.Attributes.WindowsKeys[i] = TypedKey(body'.project.windows_keys[j])]_vars

\* A snapshot with an attribute was returned while a token and a malformed
\* line of earlier calls were stored.
C17_Witness ==
    /\ ret.done /\ ret.ptr /\ ret.err = "nil"
    /\ etag = "e1" /\ badKeys # << >>
    /\ ret.md.Instance.Attributes.EnableWSFC = "true"

\* C19: a call returns nil, nil only when client.Do failed with the context
\* cancelled; a call whose context is never cancelled returns a snapshot or
\* an error.
C19_NoResultOnlyOnCancel ==
    /\ (ret.done /\ ~ret.ptr /\ ret.err = "nil") =>
          (transport = "failed" /\ cancelAt # "never")
    /\ (ret.done /\ cancelAt = "never") => (ret.ptr \/ ret.err # "nil")

\* client.Do failed after the context was cancelled during the request.
C19_Witness ==
    ret.done /\ ~ret.ptr /\ ret.err = "nil" /\ cancelAt = "inDo" /\ transport = "failed"

\* C18: etag and badKeys are not safe for two concurrent fetches.  With no
\* lock around them a line is still logged and stored at most once for each
\* of the two goroutines, and etag is empty only between the write and the
\* substitution of the sentinel in updateEtag; the interleavings the claim
\* names are the states of C18_Witness.
C18_RacesAreBounded ==
    /\ \A l \in Lines : Count(badKeys, l) <= Cardinality(Procs)
    /\ (etag = "") => \E p \in Procs : procs[p].at = "default" /\ procs[p].hdr = ""

\* One malformed line was logged twice and is twice in the memo, and an
\* updateEtag returned the comparison of its oldEtag with the token the
\* other goroutine wrote, not with the token of its own response.
C18_Witness ==
    /\ \E l \in Lines : Count(badKeys, l) = 2 /\ Count(logged, l) = 2
    /\ \E p \in Procs :
          /\ procs[p].at = "decode"
          /\ procs[p].chg # (Normalised(procs[p].hdr) # procs[p].old)

====
